---- MODULE Spec2Model ----
(***************************************************************************)
(* Model of the file-system monitoring pipeline of foundation.v1:          *)
(*   services/file_system_monitoring/file_system_observer.py               *)
(*   services/file_system_monitoring/file_system_change_processor.py       *)
(*                                                                         *)
(* One FileSystemChangeProcessor owns one FileSystemObserver.  One task    *)
(* at a time runs process_changes(); it may be called again once the       *)
(* previous call has returned or raised.  The watch primitive (awatch),    *)
(* the responder and the other processes that create and remove the lock   *)
(* file are the environment.                                               *)
(*                                                                         *)
(* The module also models the class-level Registry of                      *)
(*   services/registering/registry.py                                      *)
(* the copy functions of                                                   *)
(*   universal_utilities/filesystem_related/general_filesystem_utilities.py*)
(* and the Registry of                                                     *)
(*   component_framework/universal_components/registry.py                  *)
(* each under a specification of its own, in which the rest of the program *)
(* does not move.                                                          *)
(***************************************************************************)
EXTENDS Integers, Sequences, FiniteSets, TLC

VARIABLES
    directories_to_observe, \* the argument the configuration was constructed with
    config,             \* the FileSystemObserverConfiguration
    _observing,         \* FileSystemObserver._observing
    _directories,       \* FileSystemObserver._directories
    responder,          \* the FileSystemChangeResponder: is its handler a coroutine function
    fs,                 \* the files that exist on disk (lock files only)
    pc,                 \* where the process_changes() call is
    changes,            \* the batch yielded by observe(), being processed
    remaining,          \* events of the batch the set comprehension has not reached yet
    changes_to_process, \* the set the comprehension has built so far
    pred_true,          \* events of the batch for which _should_process_change returned True
    lock_free,          \* events of the batch evaluated while is_lock_file_present() was False
    handler_args,       \* argument of the running _handle_directory_change call
    batch_no,           \* number of batches observe() has yielded
    handler_state,      \* what became of the handler call for the batch last yielded
    error,              \* the exception process_changes() terminated with
    raised,             \* who raised in this call, and what
    log,                \* what logger.error has been given
    suspended,          \* abandoned observe() generators still suspended at their yield
    stop_requested,     \* stop() was invoked during the active sequence
    early_stop,         \* stop() was invoked after process_changes() was scheduled, and
                        \* observe() has not been delivered a batch since
    _data,              \* Registry._data of services/registering
    _aliases,           \* Registry._aliases of services/registering
    calls,              \* the register_data calls completed since the registry was last empty
    issued,             \* the values uuid.uuid4() has returned
    outcome,            \* what the last call of a registry or of a copy function returned or raised
    tree,               \* the directory tree the copy functions work on
    _stored_data,       \* Registry._stored_data of the component framework
    matched,            \* the arguments of the last parts_match_in_order call
    instances,          \* the Registerable instances constructed so far: their _id
    _instance,          \* the _instance attribute of the class using SingletonMetaclass
    _lock,              \* SingletonMetaclass._lock: the thread that holds it
    threads,            \* where each thread is in SingletonMetaclass.__call__
    initialized         \* how many times the class initializer has run to completion

vars == <<directories_to_observe, config, _observing, _directories, responder, fs, pc, changes, remaining,
          changes_to_process, pred_true, lock_free, handler_args, batch_no,
          handler_state, error, raised, log, suspended,
          stop_requested, early_stop, _data, _aliases, calls, issued, outcome, tree, _stored_data,
          matched, instances, _instance, _lock, threads, initialized>>

(***************************************************************************)
(* Bounds                                                                  *)
(***************************************************************************)
MaxBatches == 2
MaxBatchSize == 2
MaxLogged == 1
MaxDirectories == 2

(***************************************************************************)
(* Strings and paths.  A string is the sequence of its tokens, a token     *)
(* being the separator "/" or a name: "/tmp/proj" is                       *)
(* <<"/", "tmp", "/", "proj">>.  A Path object is a root ("/" or "") and   *)
(* the sequence of its parts.  An Optional[str] is <<>> for None and <<s>> *)
(* for the string s.                                                       *)
(***************************************************************************)
None == <<>>
Some(s) == <<s>>
Sep == "/"
EmptyString == <<>>

\* Path(string): empty and "." segments are dropped
Path(string) ==
    [root |-> IF string # <<>> /\ Head(string) = Sep THEN Sep ELSE "",
     parts |-> SelectSeq(string, LAMBDA token : token # Sep /\ token # ".")]

\* "/".join(parts)
RECURSIVE Joined(_)
Joined(parts) ==
    IF parts = <<>> THEN <<>>
    ELSE IF Len(parts) = 1 THEN parts
    ELSE <<Head(parts), Sep>> \o Joined(Tail(parts))

\* str(path)
Str(path) ==
    IF path.root = "" /\ path.parts = <<>> THEN <<".">>
    ELSE (IF path.root = Sep THEN <<Sep>> ELSE <<>>) \o Joined(path.parts)

\* directory / name: an absolute right operand replaces the left one
Join(directory, name) ==
    IF Path(name).root = Sep THEN Path(name)
    ELSE [root |-> directory.root, parts |-> directory.parts \o Path(name).parts]

\* Python truthiness of an Optional[str]
Truthy(optional) == optional # None /\ optional[1] # EmptyString

\* watchfiles.Change
Change == {"added", "modified", "deleted"}

NoError == "none"
PrimitiveErrors == {"FileNotFoundError"}
ResponderErrors == {"ValueError", "KeyError"}

ProjDir == <<Sep, "tmp", Sep, "proj">>
OtherDir == <<Sep, "tmp", Sep, "other", Sep>>
LockName == <<"LOCK">>

(***************************************************************************)
(* The objects the constructor is given: a str, a Path, or a list of them. *)
(***************************************************************************)
StrObject(string) == [type |-> "str", value |-> string]
PathObject(path) == [type |-> "Path", value |-> path]
ListObject(elements) == [type |-> "list", value |-> elements]

\* str(object) of a str or a Path
StrOf(object) == IF object.type = "Path" THEN Str(object.value) ELSE object.value

\* pattern.strip(): the blanks at both ends are removed
RECURSIVE Strip(_)
Strip(pattern) ==
    IF pattern = <<>> THEN pattern
    ELSE IF Head(pattern) = " " THEN Strip(Tail(pattern))
    ELSE IF pattern[Len(pattern)] = " " THEN Strip(SubSeq(pattern, 1, Len(pattern) - 1))
    ELSE pattern

\* the arguments the configuration is built from: directories, lock-file name
Configurations ==
    {<<StrObject(ProjDir), None>>,
     <<PathObject(Path(ProjDir)), Some(EmptyString)>>,
     <<ListObject(<<StrObject(ProjDir)>>), Some(LockName)>>,
     <<ListObject(<<StrObject(ProjDir), PathObject(Path(OtherDir))>>), Some(LockName)>>}

\* faulty variant: the argument is iterated as it is, a str character by character
AsList_Iterated(argument) ==
    IF argument.type = "list" THEN argument.value
    ELSE IF argument.type = "str"
         THEN [i \in DOMAIN argument.value |-> StrObject(<<argument.value[i]>>)]
         ELSE <<>>

\* "if isinstance(directories_to_observe, (str, Path))": a single path becomes a list
AsList(argument) ==
    IF argument.type \in {"str", "Path"} THEN <<argument>> ELSE argument.value

(***************************************************************************)
(* FileSystemObserverConfiguration.__init__                                *)
(***************************************************************************)
FileSystemObserverConfiguration(directories, include, exclude, lock_file) ==
    [directories_to_observe |->
         [i \in DOMAIN AsList(directories) |-> Path(StrOf(AsList(directories)[i]))],
     include_patterns |-> [i \in DOMAIN include |-> Strip(include[i])],
     exclude_patterns |-> [i \in DOMAIN exclude |-> Strip(exclude[i])],
     processing_lock_file |-> lock_file]

\* faulty variant: the observer takes the first directory only
Directories_FirstOnly(configuration_given) ==
    SubSeq(configuration_given.directories_to_observe, 1, 1)

\* FileSystemObserver.__init__: "self._directories = config.directories_to_observe"
Directories(configuration_given) == configuration_given.directories_to_observe

\* observe(): "str(directory)" of the first directory, the same in every configuration
directory_path == Str(Path(ProjDir))

(***************************************************************************)
(* What awatch reports: absolute paths of files below the directories it   *)
(* was given.  A file is modified, a temporary file is removed, the file   *)
(* named LOCK is created.                                                  *)
(***************************************************************************)
EventPaths ==
    {directory_path \o <<Sep, "a.txt">>, directory_path \o <<Sep, "b.tmp">>,
     directory_path \o <<Sep>> \o LockName}

Events ==
    {event \in Change \X EventPaths :
        /\ (event[1] = "modified") = (event[2] = directory_path \o <<Sep, "a.txt">>)
        /\ (event[1] = "deleted") = (event[2] = directory_path \o <<Sep, "b.tmp">>)}

Batches == {batch \in SUBSET Events : batch # {} /\ Cardinality(batch) <= MaxBatchSize}

(***************************************************************************)
(* Path.exists(): the watched directories exist, a file exists when it is  *)
(* on disk.                                                                *)
(***************************************************************************)
Exists(path) ==
    \/ path \in fs
    \/ \E i \in DOMAIN _directories : path = _directories[i]

(***************************************************************************)
(* FileSystemObserver.is_lock_file_present: any(...) over _directories, in *)
(* list order.                                                             *)
(***************************************************************************)
\* faulty variant: only the first watched directory is looked at
AnyExists_FirstOnly(directories, name) ==
    directories # <<>> /\ Exists(Join(Head(directories), name))

RECURSIVE AnyExists(_, _)
AnyExists(directories, name) ==
    IF directories = <<>> THEN FALSE
    ELSE IF Exists(Join(Head(directories), name)) THEN TRUE
    ELSE AnyExists(Tail(directories), name)

is_lock_file_present ==
    IF ~Truthy(config.processing_lock_file) THEN FALSE
    ELSE AnyExists(_directories, config.processing_lock_file[1])

(***************************************************************************)
(* The condition of the set comprehension of process_changes, for one      *)
(* event whose predicate returned should_process.                          *)
(***************************************************************************)
\* faulty variant: the lock file is not looked for
Retained_IgnoresLock(should_process, path) ==
    /\ should_process
    /\ Some(path) # config.processing_lock_file

Retained(should_process, path) ==
    /\ should_process
    /\ Some(path) # config.processing_lock_file
    /\ ~is_lock_file_present

(***************************************************************************)
(* What a call returns or raises, and Python dictionaries.                 *)
(***************************************************************************)
NoOutcome == [raises |-> NoError, returns |-> None]
Returns(value) == [raises |-> NoError, returns |-> Some(value)]
Raises(exception) == [raises |-> exception, returns |-> None]

EmptyDict == <<>>

\* dictionary[key] = value
Put(dictionary, key, value) ==
    [k \in DOMAIN dictionary \cup {key} |-> IF k = key THEN value ELSE dictionary[k]]

\* faulty variant: a missing key gives None, as dictionary.get(key) does
Subscript_Get(dictionary, key) ==
    IF key \in DOMAIN dictionary THEN Returns(dictionary[key]) ELSE NoOutcome

\* dictionary[key]
Subscript(dictionary, key) ==
    IF key \in DOMAIN dictionary THEN Returns(dictionary[key]) ELSE Raises("KeyError")

Active == pc \in {"awaiting", "filtering", "dispatch", "handling"}

NothingRaised == [by |-> "nobody", exception |-> NoError]

IncludePatterns == <<<<" ", "*.txt">>>>
ExcludePatterns == <<<<"*.tmp", " ">>>>

\* the pipeline as constructed, process_changes() not yet called
Constructed ==
    /\ \E arguments \in Configurations :
          /\ directories_to_observe = arguments[1]
          /\ config = FileSystemObserverConfiguration(arguments[1], IncludePatterns,
                                                      ExcludePatterns, arguments[2])
    /\ _observing = FALSE
    /\ _directories = Directories(config)
    /\ responder \in [handler_is_async : BOOLEAN]
    /\ fs = {}
    /\ pc = "idle"
    /\ changes = {}
    /\ remaining = {}
    /\ changes_to_process = {}
    /\ pred_true = {}
    /\ lock_free = {}
    /\ handler_args = {}
    /\ batch_no = 0
    /\ handler_state = "none"
    /\ error = NoError
    /\ raised = NothingRaised
    /\ log = <<>>
    /\ suspended = 0
    /\ stop_requested = FALSE
    /\ early_stop = FALSE

\* no call of parts_match_in_order made
NoCall == <<>>

\* no thread has called the class
NoThreads == <<>>

\* the class attributes as the modules define them, no call made yet
Untouched ==
    /\ _data = EmptyDict
    /\ _aliases = EmptyDict
    /\ calls = {}
    /\ issued = {}
    /\ outcome = NoOutcome
    /\ _stored_data = <<>>
    /\ matched = NoCall
    /\ instances = EmptyDict
    /\ _instance = None
    /\ _lock = None
    /\ threads = NoThreads
    /\ initialized = 0

\* nothing below the root directory
NoFiles == <<>>

Init ==
    /\ Constructed
    /\ Untouched
    /\ tree = NoFiles

\* one pipeline, constructed and never started
Parked ==
    /\ Constructed
    /\ directories_to_observe = StrObject(ProjDir)
    /\ ~responder.handler_is_async

configuration == <<directories_to_observe, config, _directories, responder>>
locals == <<changes, remaining, changes_to_process, pred_true, lock_free, handler_args>>
history == <<batch_no, handler_state>>
watching == <<configuration, _observing, fs, pc, locals, history, error, raised, log, suspended,
              stop_requested, early_stop>>
registering == <<_data, _aliases, calls>>
singleton == <<_instance, _lock, threads, initialized>>
elsewhere == <<registering, issued, outcome, tree, _stored_data, matched, instances, singleton>>

(***************************************************************************)
(* The other processes: a file named LOCK is created in a watched          *)
(* directory and removed at any time.                                      *)
(***************************************************************************)
LockFilePaths ==
    {Join(_directories[i], LockName) : i \in DOMAIN _directories}

CreateLockFile(file) ==
    /\ file \notin fs
    /\ fs' = fs \cup {file}
    /\ UNCHANGED <<elsewhere, early_stop, configuration, _observing, pc, locals, history, error, raised, log,
                   suspended, stop_requested>>

RemoveLockFile(file) ==
    /\ file \in fs
    /\ fs' = fs \ {file}
    /\ UNCHANGED <<elsewhere, early_stop, configuration, _observing, pc, locals, history, error, raised, log,
                   suspended, stop_requested>>

(***************************************************************************)
(* process_changes() is called: the coroutine exists, its body and the     *)
(* body of observe() have not started.                                     *)
(***************************************************************************)
StartProcessChanges ==
    /\ pc \in {"idle", "returned", "raised"}
    /\ pc' = "scheduled"
    /\ error' = NoError
    /\ raised' = NothingRaised
    /\ handler_state' = "none"
    /\ UNCHANGED <<elsewhere, early_stop, configuration, _observing, fs, locals, batch_no, log, suspended,
                   stop_requested>>

(***************************************************************************)
(* observe(), up to its first wait on awatch.                              *)
(***************************************************************************)
ObserveStarts ==
    /\ pc = "scheduled"
    /\ _observing' = TRUE
    /\ pc' = "awaiting"
    /\ UNCHANGED <<elsewhere, early_stop, configuration, fs, locals, history, error, raised, log, suspended,
                   stop_requested>>

\* faulty variant: the flag is not checked
Breaks_Never == FALSE

\* observe(): "if not self._observing: break"
Breaks == ~_observing

\* faulty variant: one set accumulates the events of all batches
NewSet_Accumulates(previous) == previous

\* "changes_to_process = {...}": every iteration builds a new set
NewSet(previous) == {}

\* the glob pattern that the last name of a path matches, if any
PatternOf(path) ==
    CASE path[Len(path)] = "a.txt" -> <<"*.txt">>
      [] path[Len(path)] = "b.tmp" -> <<"*.tmp">>
      [] OTHER -> <<>>

MatchesAny(path, patterns) == \E i \in DOMAIN patterns : patterns[i] = PatternOf(path)

\* faulty variant: observe() applies the patterns of the configuration
Yielded_Matching(batch) ==
    {event \in batch :
        /\ MatchesAny(event[2], config.include_patterns)
        /\ ~MatchesAny(event[2], config.exclude_patterns)}

\* "yield changes": the set awatch delivered
Yielded(batch) == batch

(***************************************************************************)
(* awatch delivers a batch and observe() yields it to process_changes.     *)
(***************************************************************************)
ObserveYields(batch) ==
    /\ pc = "awaiting"
    /\ ~Breaks
    /\ batch_no < MaxBatches
    /\ batch_no' = batch_no + 1
    /\ changes' = Yielded(batch)
    /\ remaining' = changes'
    /\ changes_to_process' = NewSet(changes_to_process)
    /\ pred_true' = {}
    /\ lock_free' = {}
    /\ handler_state' = "none"
    /\ pc' = "filtering"
    /\ early_stop' = FALSE
    /\ UNCHANGED <<elsewhere, configuration, _observing, fs, handler_args, error, raised, log,
                   suspended, stop_requested>>

(***************************************************************************)
(* awatch delivers a batch, observe() breaks out of its loop, its finally  *)
(* clause runs and process_changes() returns.                              *)
(***************************************************************************)
ObserveBreaks(batch) ==
    /\ pc = "awaiting"
    /\ Breaks
    /\ _observing' = FALSE
    /\ pc' = "returned"
    /\ stop_requested' = FALSE
    /\ changes' = {}
    /\ changes_to_process' = {}
    /\ early_stop' = FALSE
    /\ UNCHANGED <<elsewhere, configuration, fs, remaining, pred_true, lock_free, handler_args, history,
                   error, raised, log, suspended>>

\* faulty variant: the error is re-raised without being logged
Logged_Nothing(exception) == log

\* logger.error(f"Error observing directories: {error}")
Logged(exception) == Append(log, exception)

(***************************************************************************)
(* awatch raises: except clause, finally clause, and the exception leaves  *)
(* process_changes().                                                      *)
(***************************************************************************)
AwatchRaises(exception) ==
    /\ pc = "awaiting"
    /\ Len(log) < MaxLogged
    /\ log' = Logged(exception)
    /\ _observing' = FALSE
    /\ error' = exception
    /\ raised' = [by |-> "primitive", exception |-> exception]
    /\ pc' = "raised"
    /\ stop_requested' = FALSE
    /\ changes' = {}
    /\ changes_to_process' = {}
    /\ early_stop' = FALSE
    /\ UNCHANGED <<elsewhere, configuration, fs, remaining, pred_true, lock_free, handler_args, history,
                   suspended>>

(***************************************************************************)
(* One element of the set comprehension: _should_process_change returns.   *)
(***************************************************************************)
FilterEvent(event, should_process) ==
    /\ pc = "filtering"
    /\ event \in remaining
    /\ remaining' = remaining \ {event}
    /\ pred_true' = IF should_process THEN pred_true \cup {event} ELSE pred_true
    /\ lock_free' = IF is_lock_file_present THEN lock_free ELSE lock_free \cup {event}
    /\ changes_to_process' = IF Retained(should_process, event[2])
                             THEN changes_to_process \cup {event}
                             ELSE changes_to_process
    /\ pc' = IF remaining' = {} THEN "dispatch" ELSE "filtering"
    /\ UNCHANGED <<elsewhere, early_stop, configuration, _observing, fs, changes, handler_args, history, error,
                   raised, log, suspended, stop_requested>>

\* faulty variant: the exception is swallowed and the next batch is awaited
AfterResponderRaises_Swallowed == "awaiting"

\* an exception of the responder is not caught in process_changes
AfterResponderRaises == "raised"

(***************************************************************************)
(* The responder raises: the exception leaves process_changes(), and the   *)
(* observe() generator stays suspended at its yield until it is closed.    *)
(***************************************************************************)
ResponderRaises(exception) ==
    /\ raised' = [by |-> "responder", exception |-> exception]
    /\ pc' = AfterResponderRaises
    /\ error' = IF pc' = "raised" THEN exception ELSE error
    /\ suspended' = IF pc' = "raised" THEN suspended + 1 ELSE suspended
    /\ stop_requested' = IF pc' = "raised" THEN FALSE ELSE stop_requested
    /\ changes' = {}
    /\ remaining' = {}
    /\ changes_to_process' = {}
    /\ pred_true' = {}
    /\ lock_free' = {}
    /\ handler_args' = {}

ShouldProcessRaises(event, exception) ==
    /\ pc = "filtering"
    /\ event \in remaining
    /\ ResponderRaises(exception)
    /\ UNCHANGED <<elsewhere, early_stop, configuration, _observing, fs, history, log>>

(***************************************************************************)
(* "if changes_to_process:" and the call of _handle_directory_change.      *)
(***************************************************************************)
Dispatch ==
    /\ pc = "dispatch"
    /\ IF changes_to_process # {}
       THEN /\ handler_args' = changes_to_process
            /\ handler_state' = "running"
            /\ pc' = "handling"
            /\ UNCHANGED <<changes, changes_to_process, pred_true, lock_free>>
       ELSE /\ pc' = "awaiting"
            /\ pred_true' = {}
            /\ lock_free' = {}
            /\ UNCHANGED <<changes, changes_to_process, handler_args, handler_state>>
    /\ UNCHANGED <<elsewhere, early_stop, configuration, _observing, fs, remaining, batch_no, error, raised, log,
                   suspended, stop_requested>>

\* faulty variant: the result of the call is awaited
HandlerOutcome_Awaited == "completed"

\* the call is not awaited: a coroutine function only returns a coroutine object
HandlerOutcome == IF responder.handler_is_async THEN "coroutine" ELSE "completed"

(***************************************************************************)
(* The call of _handle_directory_change returns; process_changes() asks    *)
(* observe() for the next batch.                                           *)
(***************************************************************************)
HandlerReturns ==
    /\ pc = "handling"
    /\ handler_state' = HandlerOutcome
    /\ pc' = "awaiting"
    /\ pred_true' = {}
    /\ lock_free' = {}
    /\ handler_args' = {}
    /\ UNCHANGED <<elsewhere, early_stop, configuration, _observing, fs, changes, remaining, changes_to_process,
                   batch_no, error, raised, log, suspended, stop_requested>>

\* the body of a synchronous handler raises
HandlerRaises(exception) ==
    /\ pc = "handling"
    /\ ~responder.handler_is_async
    /\ handler_state' = "raised"
    /\ ResponderRaises(exception)
    /\ UNCHANGED <<elsewhere, early_stop, configuration, _observing, fs, batch_no, log>>

(***************************************************************************)
(* An abandoned observe() generator is closed: its finally clause runs.    *)
(***************************************************************************)
GeneratorClosed ==
    /\ suspended > 0
    /\ suspended' = suspended - 1
    /\ _observing' = FALSE
    /\ UNCHANGED <<elsewhere, early_stop, configuration, fs, pc, locals, history, error, raised, log,
                   stop_requested>>

(***************************************************************************)
(* FileSystemObserver.stop(), also through stop_observing(): from the      *)
(* responder, another task or another thread, at any time.                 *)
(***************************************************************************)
\* faulty variant: stop() leaves the flag set
StopFlag_StillObserving == _observing

\* stop(): "self._observing = False"
StopFlag == FALSE

Stop ==
    /\ _observing' = StopFlag
    /\ stop_requested' = (stop_requested \/ Active)
    /\ early_stop' = (early_stop \/ pc = "scheduled")
    /\ UNCHANGED <<elsewhere, configuration, fs, pc, locals, history, error, raised, log, suspended>>

Environment ==
    \/ \E file \in LockFilePaths : CreateLockFile(file)
    \/ \E file \in LockFilePaths : RemoveLockFile(file)

Next ==
    \/ Environment
    \/ StartProcessChanges
    \/ ObserveStarts
    \/ \E batch \in Batches : ObserveYields(batch)
    \/ \E batch \in Batches : ObserveBreaks(batch)
    \/ \E exception \in PrimitiveErrors : AwatchRaises(exception)
    \/ \E event \in Events, should_process \in BOOLEAN : FilterEvent(event, should_process)
    \/ \E event \in Events, exception \in ResponderErrors : ShouldProcessRaises(event, exception)
    \/ Dispatch
    \/ HandlerReturns
    \/ \E exception \in ResponderErrors : HandlerRaises(exception)
    \/ GeneratorClosed
    \/ Stop

Spec == Init /\ [][Next]_vars

(***************************************************************************)
(* The scheduler runs the synchronous code of process_changes() to its     *)
(* next wait, the responder's calls return or raise, and the watch         *)
(* primitive goes on delivering batches.                                   *)
(***************************************************************************)
Processing ==
    \/ ObserveStarts
    \/ \E event \in Events, should_process \in BOOLEAN : FilterEvent(event, should_process)
    \/ Dispatch
    \/ HandlerReturns

Delivery ==
    \/ \E batch \in Batches : ObserveYields(batch)
    \/ \E batch \in Batches : ObserveBreaks(batch)

FairSpec == Spec /\ WF_vars(Processing) /\ WF_vars(Delivery)

(***************************************************************************)
(* Construction.  A configuration and its observer are constructed from    *)
(* any argument the signature admits: a str, a Path, or a list of them.    *)
(***************************************************************************)
DirectoryStrings == {ProjDir, OtherDir, <<".", Sep, "rel">>, EmptyString}

SinglePaths ==
    {StrObject(string) : string \in DirectoryStrings}
        \cup {PathObject(Path(string)) : string \in DirectoryStrings}

DirectoryLists ==
    UNION {[1..n -> SinglePaths] : n \in 0..MaxDirectories}

DirectoryArguments ==
    SinglePaths \cup {ListObject(elements) : elements \in DirectoryLists}

Construct(argument) ==
    /\ directories_to_observe' = argument
    /\ config' = FileSystemObserverConfiguration(argument, IncludePatterns, ExcludePatterns,
                                                 config.processing_lock_file)
    /\ _directories' = Directories(config')
    /\ _observing' = FALSE
    /\ UNCHANGED <<elsewhere, early_stop, responder, fs, pc, locals, history, error, raised, log, suspended,
                   stop_requested>>

ConstructionNext == \E argument \in DirectoryArguments : Construct(argument)

ConstructionSpec == Init /\ [][ConstructionNext]_vars

(***************************************************************************)
(* services/registering/registry.py: the class Registry.  Its two          *)
(* dictionaries are class attributes, shared by every caller.  Several     *)
(* cooperative tasks call it; its methods contain no await, so a call runs *)
(* from its first line to its return without another task running.         *)
(***************************************************************************)
MaxRegistrations == 3

Tasks == {"task1", "task2"}
Objects == {"a", "b"}
AliasNames == {<<"Alpha">>}

\* the values of uuid.uuid4(), and str() of them: the first eight characters and the rest
Uuids == 1..MaxRegistrations
Hex == <<"0000000a", "0000000b", "0000000c", "0000000d", "0000000e", "0000000f">>
UuidString(uuid) == <<Hex[uuid], "-0000-4000-8000-000000000000">>
UUIDObject(uuid) == [type |-> "UUID", value |-> uuid]

\* uuid.uuid4(): a random value, never one that was returned before.  The values are
\* interchangeable, and the least unused one stands for the value drawn.
uuid4 == {uuid \in Uuids \ issued : \A unused \in Uuids \ issued : uuid <= unused}

\* "str(identifier)" of a str or a uuid.UUID
IdentifierString(identifier) ==
    IF identifier.type = "UUID" THEN UuidString(identifier.value) ELSE identifier.value

\* faulty variant: the alias is not recorded
AliasesAfter_NotRecorded(alias, data_id) == _aliases

\* "if alias: cls._aliases[alias] = data_id"
AliasesAfter(alias, data_id) ==
    IF Truthy(alias) THEN Put(_aliases, alias[1], data_id) ELSE _aliases

\* Registry.get_data
get_data(identifier) ==
    LET data_id == IF IdentifierString(identifier) \in DOMAIN _aliases
                   THEN _aliases[IdentifierString(identifier)]
                   ELSE IdentifierString(identifier)
    IN  Subscript(_data, data_id)

\* the aliases a caller passes: none, the empty string, a name, or an identifier it holds
AliasArguments ==
    {None, Some(EmptyString)}
        \cup {Some(name) : name \in AliasNames}
        \cup {Some(UuidString(uuid)) : uuid \in issued}

\* what get_data is asked for: a str or a uuid.UUID
Identifiers ==
    {StrObject(string) : string \in AliasNames \cup {EmptyString}}
        \cup {StrObject(UuidString(uuid)) : uuid \in Uuids}
        \cup {UUIDObject(uuid) : uuid \in Uuids}

\* the body of Registry.register_data, with the value uuid.uuid4() returns
Registered(task, data, alias, uuid) ==
    LET data_id == UuidString(uuid)
    IN  /\ issued' = issued \cup {uuid}
        /\ _data' = Put(_data, data_id, data)
        /\ _aliases' = AliasesAfter(alias, data_id)
        /\ calls' = calls \cup {[task |-> task, data |-> data, data_id |-> data_id]}
        /\ outcome' = Returns(data_id)
        /\ UNCHANGED <<watching, tree, _stored_data, matched, singleton>>

\* Registry.register_data, called by a task
register_data(task, data, alias) ==
    \E uuid \in uuid4 :
        /\ Registered(task, data, alias, uuid)
        /\ UNCHANGED instances

\* a call of Registry.get_data
GetData(identifier) ==
    /\ outcome' = get_data(identifier)
    /\ UNCHANGED <<watching, registering, issued, tree, _stored_data, matched, instances, singleton>>

\* faulty variant: clear() leaves the aliases
AliasesCleared_Kept == _aliases

\* "cls._aliases.clear()"
AliasesCleared == EmptyDict

\* Registry.clear
clear ==
    /\ _data' = EmptyDict
    /\ _aliases' = AliasesCleared
    /\ calls' = {}
    /\ outcome' = NoOutcome
    /\ UNCHANGED <<watching, issued, tree, _stored_data, matched, instances, singleton>>

RegistryNext ==
    \/ \E task \in Tasks, data \in Objects, alias \in AliasArguments :
          register_data(task, data, alias)
    \/ \E identifier \in Identifiers : GetData(identifier)
    \/ clear

RegistryInit ==
    /\ Parked
    /\ Untouched
    /\ tree = NoFiles

RegistrySpec == RegistryInit /\ [][RegistryNext]_vars

(***************************************************************************)
(* services/registering/registry.py: the class Registerable.  An instance  *)
(* is constructed once; it keeps its registry (the class Registry, no      *)
(* other registry being passed) and its _id.  Its class gives the alias it *)
(* is registered under and the default of should_register.  The methods    *)
(* contain no await, and one task constructs and registers the instances.  *)
(***************************************************************************)
Registerables == {"w1", "g1"}

\* self.__class__.__name__
ClassName == [instance \in Registerables |-> IF instance = "w1" THEN <<"Widget">> ELSE <<"Gadget">>]

\* the class attribute: Registerable's value, and a subclass that overrides it
should_register_by_default ==
    [instance \in Registerables |-> instance = "w1"]

\* should_register: Optional[bool]
ShouldRegisterArguments == {None, Some(TRUE), Some(FALSE)}

\* the task that constructs the instances and calls their register()
Owner == "task1"

\* the property id
id(instance) == instances[instance]._id

\* faulty variant: an instance never counts as registered
is_registered_Never(instance) == FALSE

\* the property is_registered
is_registered(instance) == id(instance) # None

\* _register_on_creation_if_needed: should_perform_registration
should_perform_registration(instance, should_register) ==
    IF should_register # None THEN should_register[1] ELSE should_register_by_default[instance]

\* Registerable.register, from "self._id = ..." on, for an instance whose _id is None
Registers(instance) ==
    \E uuid \in uuid4 :
        /\ Registered(Owner, instance, Some(ClassName[instance]), uuid)
        /\ instances' = Put(instances, instance, [_id |-> Some(UuidString(uuid))])

\* Registerable.register, called on a constructed instance
register(instance) ==
    /\ instance \in DOMAIN instances
    /\ IF is_registered(instance)
       THEN /\ outcome' = Raises("RuntimeError")
            /\ UNCHANGED <<watching, registering, issued, tree, _stored_data, matched, instances,
                           singleton>>
       ELSE Registers(instance)

\* Registerable.__init__
Registerable(instance, should_register) ==
    /\ instance \notin DOMAIN instances
    /\ IF should_perform_registration(instance, should_register)
       THEN Registers(instance)
       ELSE /\ instances' = Put(instances, instance, [_id |-> None])
            /\ outcome' = NoOutcome
            /\ UNCHANGED <<watching, registering, issued, tree, _stored_data, matched, singleton>>

\* the aliases passed to register_data directly: none, or the name of a class
ClassAliases == {None} \cup {Some(ClassName[instance]) : instance \in Registerables}

RegisterableNext ==
    \/ \E instance \in Registerables, should_register \in ShouldRegisterArguments :
          Registerable(instance, should_register)
    \/ \E instance \in Registerables : register(instance)
    \/ \E task \in Tasks, data \in Objects, alias \in ClassAliases :
          register_data(task, data, alias)
    \/ \E uuid \in issued : GetData(StrObject(UuidString(uuid)))
    \/ clear

RegisterableInit ==
    /\ Parked
    /\ Untouched
    /\ tree = NoFiles

RegisterableSpec == RegisterableInit /\ [][RegisterableNext]_vars

(***************************************************************************)
(* universal_utilities/filesystem_related/general_filesystem_utilities.py: *)
(* copy_file_or_directory, copy_file and copy_directory.  The tree maps    *)
(* every existing path below the root to "directory" or, for a file, to    *)
(* its content.  The messages given to the logger are left out.            *)
(***************************************************************************)
Root == [root |-> Sep, parts |-> <<>>]
Src == Path(<<Sep, "src">>)
Dst == Path(<<Sep, "dst">>)
Out == Path(<<Sep, "out">>)
OutDst == Path(<<Sep, "out", Sep, "dst">>)

FileNames == {"f", "g"}
Contents == {"x", "y"}

\* path.parent, path.name and directory / name for a single name
Parent(path) == [root |-> path.root, parts |-> SubSeq(path.parts, 1, Len(path.parts) - 1)]
Name(path) == path.parts[Len(path.parts)]
Child(directory, name) == [root |-> directory.root, parts |-> Append(directory.parts, name)]

\* path.exists(), path.is_file(), path.is_dir()
exists(path) == path = Root \/ path \in DOMAIN tree
is_dir(path) == path = Root \/ (path \in DOMAIN tree /\ tree[path] = "directory")
is_file(path) == exists(path) /\ ~is_dir(path)

\* os.listdir(directory)
listdir(directory) == {Name(path) : path \in {p \in DOMAIN tree : Parent(p) = directory}}

\* path.mkdir(parents=True, exist_ok=True) and os.makedirs(path, exist_ok=True), in a tree
RECURSIVE MakeDirs(_, _)
MakeDirs(files, path) ==
    IF path = Root \/ path \in DOMAIN files THEN files
    ELSE Put(MakeDirs(files, Parent(path)), path, "directory")

\* fnmatch of a name against a pattern: a literal name, or "*"
Matches(name, pattern) == pattern = "*" \/ pattern = name

\* shutil.ignore_patterns(*patterns)(directory, names)
Ignored(names, patterns) ==
    {name \in names : \E i \in DOMAIN patterns : Matches(name, patterns[i])}

\* shutil.copy2(source, destination): into the directory when destination is one
Copy2Target(source, destination) ==
    IF is_dir(destination) THEN Child(destination, Name(source)) ELSE destination

\* copy_file
copy_file(source_path, destination_path, overwrite) ==
    LET source == Path(source_path)
        destination == Path(destination_path)
    IN  IF ~exists(source)
        THEN /\ outcome' = Raises("FileNotFoundError")
             /\ tree' = tree
        ELSE IF exists(destination) /\ ~overwrite
        THEN /\ outcome' = Raises("FileExistsError")
             /\ tree' = tree
        ELSE /\ outcome' = NoOutcome
             /\ tree' = Put(MakeDirs(tree, Parent(destination)),
                            Copy2Target(source, destination), tree[source])

\* shutil.copytree(source, destination, ignore=..., dirs_exist_ok=True) of a directory of files
RECURSIVE CopyFiles(_, _, _, _)
CopyFiles(files, source, destination, names) ==
    IF names = {} THEN files
    ELSE LET name == CHOOSE n \in names : TRUE
         IN  CopyFiles(Put(files, Child(destination, name), tree[Child(source, name)]),
                       source, destination, names \ {name})

\* copy_directory: the destination may exist, its files of the same names are overwritten
copy_directory(source_path, destination_path, ignore_patterns) ==
    LET source == Path(source_path)
        destination == Path(destination_path)
        names == listdir(source) \ Ignored(listdir(source), ignore_patterns)
    IN  IF is_file(destination)
        THEN /\ outcome' = Raises("FileExistsError")
             /\ tree' = tree
        ELSE /\ outcome' = NoOutcome
             /\ tree' = CopyFiles(MakeDirs(tree, destination), source, destination, names)

\* copy_file_or_directory
copy_file_or_directory(source_path, destination_path, overwrite, ignore_patterns) ==
    /\ IF ~exists(Path(source_path))
       THEN /\ outcome' = Raises("FileNotFoundError")
            /\ tree' = tree
       ELSE IF is_file(Path(source_path))
       THEN copy_file(source_path, destination_path, overwrite)
       ELSE copy_directory(source_path, destination_path, ignore_patterns)
    /\ UNCHANGED <<watching, registering, issued, _stored_data, matched, instances, singleton>>

SourceArguments == {<<Sep, "src">>, <<Sep, "src", Sep, "f">>}
DestinationArguments == {<<Sep, "dst">>, <<Sep, "out", Sep, "dst">>}
IgnoreArguments == {None, <<"f">>, <<"*">>}

\* a directory and the files in it, by name
DirectoryAt(directory, listing) ==
    [path \in {directory} \cup {Child(directory, name) :
                                   name \in {n \in FileNames : listing[n] # "absent"}}
        |-> IF path = directory THEN "directory" ELSE listing[Name(path)]]

\* what may be at a place: nothing, a file, or a directory of files
At(place) ==
    {NoFiles}
        \cup {place :> content : content \in Contents}
        \cup {DirectoryAt(place, listing) : listing \in [FileNames -> Contents \cup {"absent"}]}

Trees ==
    {source @@ destination @@ other :
        source \in At(Src),
        destination \in At(Dst),
        other \in {NoFiles} \cup {(Out :> "directory") @@ below : below \in At(OutDst)}}

CopyNext ==
    \E source_path \in SourceArguments, destination_path \in DestinationArguments,
       overwrite \in BOOLEAN, ignore_patterns \in IgnoreArguments :
        copy_file_or_directory(source_path, destination_path, overwrite, ignore_patterns)

CopyInit ==
    /\ Parked
    /\ Untouched
    /\ tree \in Trees

CopySpec == CopyInit /\ [][CopyNext]_vars

(***************************************************************************)
(* component_framework/universal_components/registry.py: the class         *)
(* Registry.  _stored_data is a dictionary in insertion order: a sequence  *)
(* of <<key, entry>> pairs; an entry is a dictionary with the keys "alias" *)
(* and "data" and, for a type other than the default, "dataType".          *)
(***************************************************************************)
MaxStored == 2

DEFAULT_TYPE == <<"default">>
WidgetType == <<"widget">>
GivenId == <<"k1">>

\* the keys of _stored_data
Keys(pairs) == {pairs[i][1] : i \in DOMAIN pairs}

\* pairs[key] = entry: a present key keeps its place
Store(pairs, key, entry) ==
    IF key \in Keys(pairs)
    THEN [i \in DOMAIN pairs |-> IF pairs[i][1] = key THEN <<key, entry>> ELSE pairs[i]]
    ELSE Append(pairs, <<key, entry>>)

\* string[:8]: the first token of a string stands for its first eight characters
First8(string) == IF string = <<>> THEN <<>> ELSE <<Head(string)>>

\* f"item_{data_id[:8]}"
DefaultAlias(data_id) == <<"item_">> \o First8(data_id)

\* the entry register_data builds
Entry(data_type, alias, data) ==
    IF Truthy(data_type) /\ data_type[1] # DEFAULT_TYPE
    THEN [alias |-> alias, data |-> data, dataType |-> data_type[1]]
    ELSE [alias |-> alias, data |-> data]

\* entry.get("dataType", cls.DEFAULT_TYPE)
TypeOf(entry) == IF "dataType" \in DOMAIN entry THEN entry["dataType"] ELSE DEFAULT_TYPE

\* the list comprehension of get_data_by_type and get_all_data over the selected items
Comprehension(pairs) ==
    IF \E i \in DOMAIN pairs : Subscript(pairs[i][2], "wordIdentifier").raises # NoError
    THEN Raises("KeyError")
    ELSE Returns([i \in DOMAIN pairs |->
                     [id |-> pairs[i][1],
                      wordIdentifier |-> pairs[i][2]["wordIdentifier"],
                      data |-> pairs[i][2]["data"]]])

\* Registry.get_all_data
get_all_data == Comprehension(_stored_data)

\* Registry.get_data_by_type
get_data_by_type(data_type) ==
    Comprehension(SelectSeq(_stored_data, LAMBDA pair : TypeOf(pair[2]) = data_type))

\* Registry.register_data of the component framework.  Without a data_id,
\* _generate_unique_id draws uuid4 values until one is not a key: a new value never is.
component_register_data(data_id, data_type, alias, data) ==
    \E uuid \in (IF data_id = None THEN uuid4 ELSE {0}) :
        LET key == IF data_id = None THEN UuidString(uuid) ELSE data_id[1]
            word == IF alias = None THEN DefaultAlias(key) ELSE alias[1]
        IN  /\ key \in Keys(_stored_data) \/ Len(_stored_data) < MaxStored
            /\ issued' = IF data_id = None THEN issued \cup {uuid} ELSE issued
            /\ _stored_data' = Store(_stored_data, key, Entry(data_type, word, data))
            /\ outcome' = Returns(<<key, word>>)
            /\ UNCHANGED <<watching, registering, tree, matched, instances, singleton>>

\* a call of Registry.get_all_data
GetAllData ==
    /\ outcome' = get_all_data
    /\ UNCHANGED <<watching, registering, issued, tree, _stored_data, matched, instances, singleton>>

\* a call of Registry.get_data_by_type
GetDataByType(data_type) ==
    /\ outcome' = get_data_by_type(data_type)
    /\ UNCHANGED <<watching, registering, issued, tree, _stored_data, matched, instances, singleton>>

DataIdArguments == {None, Some(GivenId)} \cup {Some(key) : key \in Keys(_stored_data)}
DataTypeArguments == {None, Some(EmptyString), Some(DEFAULT_TYPE), Some(WidgetType)}
WordArguments == {None, Some(<<"Alpha">>)}
DataTypes == {DEFAULT_TYPE, WidgetType}

ComponentNext ==
    \/ \E data_id \in DataIdArguments, data_type \in DataTypeArguments,
          alias \in WordArguments, data \in Objects :
          component_register_data(data_id, data_type, alias, data)
    \/ GetAllData
    \/ \E data_type \in DataTypes : GetDataByType(data_type)

ComponentInit ==
    /\ Parked
    /\ Untouched
    /\ tree = NoFiles

ComponentSpec == ComponentInit /\ [][ComponentNext]_vars

(***************************************************************************)
(* parts_match_in_order of                                                 *)
(*   universal_utility_functions/comparison_related/                       *)
(*   general_comparison_utilities.py                                       *)
(* Positions are counted from 0 as in the code; sequence_parts[p] of the   *)
(* code is sequence_parts[p + 1] here.                                     *)
(***************************************************************************)
MaxParts == 3

Parts == {"a", "b"}

\* the lists of at most MaxParts parts
PartLists == UNION {[1..n -> Parts] : n \in 0..MaxParts}

\* the else clause of the while loop was reached
Exhausted == -1

\* faulty variant: the position is not advanced past the part that matched
RECURSIVE Advance_StaysOnMatch(_, _, _)
Advance_StaysOnMatch(sequence_parts, pattern_part, current_pos) ==
    IF ~(current_pos < Len(sequence_parts)) THEN Exhausted
    ELSE IF sequence_parts[current_pos + 1] = pattern_part THEN current_pos
    ELSE Advance_StaysOnMatch(sequence_parts, pattern_part, current_pos + 1)

\* the while loop for one pattern part: current_pos when it breaks
RECURSIVE Advance(_, _, _)
Advance(sequence_parts, pattern_part, current_pos) ==
    IF ~(current_pos < Len(sequence_parts)) THEN Exhausted
    ELSE IF sequence_parts[current_pos + 1] = pattern_part THEN current_pos + 1
    ELSE Advance(sequence_parts, pattern_part, current_pos + 1)

\* the for loop over the pattern parts not yet looked for
RECURSIVE ForEachPart(_, _, _)
ForEachPart(sequence_parts, pattern_parts, current_pos) ==
    IF pattern_parts = <<>> THEN TRUE
    ELSE LET after == Advance(sequence_parts, Head(pattern_parts), current_pos)
         IN  IF after = Exhausted THEN FALSE
             ELSE ForEachPart(sequence_parts, Tail(pattern_parts), after)

\* lines 29 to 44
parts_match_in_order(sequence_parts, pattern_parts) ==
    IF pattern_parts = <<>> THEN FALSE
    ELSE ForEachPart(sequence_parts, pattern_parts, 0)

PartsMatchInOrder(sequence_parts, pattern_parts) ==
    /\ matched' = [sequence_parts |-> sequence_parts, pattern_parts |-> pattern_parts]
    /\ outcome' = Returns(parts_match_in_order(sequence_parts, pattern_parts))
    /\ UNCHANGED <<watching, registering, issued, tree, _stored_data, instances, singleton>>

MatchNext ==
    \E sequence_parts \in PartLists, pattern_parts \in PartLists :
        PartsMatchInOrder(sequence_parts, pattern_parts)

MatchInit ==
    /\ Parked
    /\ Untouched
    /\ tree = NoFiles

MatchSpec == MatchInit /\ [][MatchNext]_vars

(***************************************************************************)
(* universal_utilities/metaclasses/singleton_metaclass.py:                 *)
(* SingletonMetaclass.__call__ for one class, called from several threads. *)
(* A thread may be preempted between any two of its steps: the first test  *)
(* of cls._instance, the acquisition of the lock, the second test, the     *)
(* call of the initializer, the assignment, the release of the lock and    *)
(* the read of cls._instance that is returned.  The initializer may raise; *)
(* the with statement then releases the lock and the exception leaves the  *)
(* call.                                                                   *)
(***************************************************************************)
MaxThreads == 2
MaxCalls == 2

Threads == 1..MaxThreads

\* what no thread of this class touches
outside == <<watching, registering, issued, outcome, tree, _stored_data, matched, instances>>

\* the arguments a call passes to the class
CallArguments == {"x", "y"}

\* the object type.__call__ builds: the initializer ran with these arguments
Object(arguments) == [args |-> arguments, number |-> initialized + 1]

ThreadAt(thread, position) == thread \in DOMAIN threads /\ threads[thread].pc = position

\* the thread moves on, the other fields of its frame kept
Goto(thread, position) == Put(threads, thread, [threads[thread] EXCEPT !.pc = position])

\* cls(*args, **kwargs) is called
Call(thread, arguments) ==
    /\ \/ thread \notin DOMAIN threads
       \/ ThreadAt(thread, "done") /\ threads[thread].calls < MaxCalls
    /\ threads' = Put(threads, thread,
                      [pc |-> "first_check",
                       args |-> arguments,
                       built |-> None,
                       returned |-> IF thread \in DOMAIN threads
                                    THEN threads[thread].returned ELSE None,
                       error |-> NoError,
                       calls |-> IF thread \in DOMAIN threads
                                 THEN threads[thread].calls + 1 ELSE 1])
    /\ UNCHANGED <<outside, _instance, _lock, initialized>>

\* "if cls._instance is None:" outside the lock
FirstCheck(thread) ==
    /\ ThreadAt(thread, "first_check")
    /\ threads' = Goto(thread, IF _instance = None THEN "acquire" ELSE "return")
    /\ UNCHANGED <<outside, _instance, _lock, initialized>>

\* "with cls._lock:" acquires the lock, waiting while another thread holds it
Acquire(thread) ==
    /\ ThreadAt(thread, "acquire")
    /\ _lock = None
    /\ _lock' = Some(thread)
    /\ threads' = Goto(thread, "second_check")
    /\ UNCHANGED <<outside, _instance, initialized>>

\* faulty variant: the test is not repeated under the lock
InstanceMissing_NotRepeated == TRUE

\* "if cls._instance is None:" under the lock
InstanceMissing == _instance = None

SecondCheck(thread) ==
    /\ ThreadAt(thread, "second_check")
    /\ threads' = Goto(thread, IF InstanceMissing THEN "create" ELSE "release")
    /\ UNCHANGED <<outside, _instance, _lock, initialized>>

\* super().__call__(*args, **kwargs) returns: the initializer has run to completion
InitializerReturns(thread) ==
    /\ ThreadAt(thread, "create")
    /\ initialized' = initialized + 1
    /\ threads' = Put(threads, thread,
                      [threads[thread] EXCEPT !.pc = "assign",
                                              !.built = Some(Object(threads[thread].args))])
    /\ UNCHANGED <<outside, _instance, _lock>>

\* super().__call__(*args, **kwargs) raises: the lock is released, the call ends
InitializerRaises(thread) ==
    /\ ThreadAt(thread, "create")
    /\ _lock' = None
    /\ threads' = Put(threads, thread,
                      [threads[thread] EXCEPT !.pc = "done", !.error = "InitializerError"])
    /\ UNCHANGED <<outside, _instance, initialized>>

\* "cls._instance = ..."
Assign(thread) ==
    /\ ThreadAt(thread, "assign")
    /\ _instance' = threads[thread].built
    /\ threads' = Goto(thread, "release")
    /\ UNCHANGED <<outside, _lock, initialized>>

\* the end of the with statement
Release(thread) ==
    /\ ThreadAt(thread, "release")
    /\ _lock' = None
    /\ threads' = Goto(thread, "return")
    /\ UNCHANGED <<outside, _instance, initialized>>

\* "return cls._instance"
Return(thread) ==
    /\ ThreadAt(thread, "return")
    /\ threads' = Put(threads, thread,
                      [threads[thread] EXCEPT !.pc = "done", !.returned = _instance])
    /\ UNCHANGED <<outside, _instance, _lock, initialized>>

SingletonNext ==
    \/ \E thread \in Threads, arguments \in CallArguments : Call(thread, arguments)
    \/ \E thread \in Threads : FirstCheck(thread)
    \/ \E thread \in Threads : Acquire(thread)
    \/ \E thread \in Threads : SecondCheck(thread)
    \/ \E thread \in Threads : InitializerReturns(thread)
    \/ \E thread \in Threads : InitializerRaises(thread)
    \/ \E thread \in Threads : Assign(thread)
    \/ \E thread \in Threads : Release(thread)
    \/ \E thread \in Threads : Return(thread)

\* SingletonMetaclass.__init__: the class has been created, no call made
SingletonInit ==
    /\ Parked
    /\ Untouched
    /\ tree = NoFiles

SingletonSpec == SingletonInit /\ [][SingletonNext]_vars

(***************************************************************************)
(* Vocabulary of the properties                                            *)
(***************************************************************************)
Range(sequence) == {sequence[i] : i \in DOMAIN sequence}

\* a file of that name lies directly in that directory
IsFileIn(file, name, directory) ==
    /\ file.root = directory.root
    /\ Len(file.parts) = Len(directory.parts) + 1
    /\ SubSeq(file.parts, 1, Len(directory.parts)) = directory.parts
    /\ <<file.parts[Len(file.parts)]>> = name

\* the path is the lock file inside a watched directory
IsLockFilePath(path) ==
    /\ Truthy(config.processing_lock_file)
    /\ \E directory \in Range(config.directories_to_observe) :
          IsFileIn(Path(path), config.processing_lock_file[1], directory)

\* a file with the configured lock-file name is in a watched directory
LockFileOnDisk ==
    /\ Truthy(config.processing_lock_file)
    /\ \E file \in fs, directory \in Range(config.directories_to_observe) :
          IsFileIn(file, config.processing_lock_file[1], directory)

\* the events of the batch that passed the predicate, are not the lock-file
\* path, and were evaluated while no lock file was present
ClaimedSet ==
    {event \in changes :
        /\ event \in pred_true
        /\ ~IsLockFilePath(event[2])
        /\ event \in lock_free}

Filtered == pc \in {"dispatch", "handling"}

(***************************************************************************)
(* C1: for every batch, the set handed to _handle_directory_change is      *)
(* exactly the events of the batch that pass _should_process_change, are   *)
(* not the lock-file path and are evaluated while no lock file is present; *)
(* the handler is invoked if and only if that set is non-empty.            *)
(***************************************************************************)
C1_HandlerGetsExactlyTheClaimedSet ==
    /\ Filtered => changes_to_process = ClaimedSet
    /\ pc = "handling" => handler_args = ClaimedSet /\ ClaimedSet # {}
    /\ pc = "awaiting" /\ changes # {} /\ handler_state = "none" => changes_to_process = {}

(***************************************************************************)
(* C2: an event whose path is the lock file inside a watched directory is  *)
(* never a member of the set handed to _handle_directory_change.           *)
(***************************************************************************)
C2_LockFileEventNeverHandled ==
    pc = "handling" => \A event \in handler_args : ~IsLockFilePath(event[2])

(***************************************************************************)
(* C3: when is_lock_file_present() is true for the whole batch, the        *)
(* processed set is empty whatever the predicate returns, and the handler  *)
(* is not invoked for that batch.                                          *)
(***************************************************************************)
C3_LockPresentSuppressesBatch ==
    (pc \in {"filtering", "dispatch", "handling"} /\ lock_free = {})
        => (changes_to_process = {} /\ pc # "handling")

C3_Witness ==
    /\ pc = "dispatch"
    /\ lock_free = {}
    /\ pred_true = changes
    /\ Cardinality(changes) = MaxBatchSize

(***************************************************************************)
(* C4: is_lock_file_present() is true exactly when a lock-file name is     *)
(* configured and a file of that name exists in at least one watched       *)
(* directory; with no name configured it is false whatever is on disk.     *)
(***************************************************************************)
C4_LockFilePresentIffOnDisk ==
    /\ is_lock_file_present = LockFileOnDisk
    /\ ~Truthy(config.processing_lock_file) => ~is_lock_file_present

C4_Witness ==
    /\ pc = "filtering"
    /\ is_lock_file_present
    /\ Join(_directories[1], LockName) \notin fs

C7_PrimitiveErrorLoggedAndReraised ==
    /\ [](raised.by = "primitive" =>
             /\ pc = "raised"
             /\ error = raised.exception
             /\ error \in PrimitiveErrors
             /\ log # <<>>
             /\ log[Len(log)] = raised.exception
             /\ ~_observing)
    /\ [][raised.by = "primitive" => batch_no' = batch_no]_vars

C7_Witness ==
    /\ raised.by = "primitive"
    /\ batch_no = MaxBatches - 1

(***************************************************************************)
(* C8: when _should_process_change or _handle_directory_change raises,     *)
(* process_changes() terminates with that same exception: the handler is   *)
(* not invoked again for the batch and no later batch is processed.        *)
(***************************************************************************)
C8_ResponderErrorPropagates ==
    /\ [](raised.by = "responder" =>
             /\ pc = "raised"
             /\ error = raised.exception
             /\ error \in ResponderErrors)
    /\ [][raised.by = "responder" =>
             /\ batch_no' = batch_no
             /\ handler_state' = handler_state \/ raised'.by # "responder"]_vars

C8_Witness ==
    /\ raised.by = "responder"
    /\ handler_state = "raised"

(***************************************************************************)
(* C9, as stated: with an asynchronous handler, the handler's work for a   *)
(* batch has completed when process_changes() asks for the next batch.     *)
(***************************************************************************)
C9_AsyncHandlerCompletesBeforeNextBatch ==
    (responder.handler_is_async /\ pc = "awaiting")
        => handler_state \in {"none", "completed"}

(***************************************************************************)
(* C9, amended: the handler is called and never awaited.  A synchronous    *)
(* handler's work for a batch has completed when process_changes() asks    *)
(* for the next batch; an asynchronous handler only returns a coroutine    *)
(* object, and its work is never performed by process_changes().           *)
(***************************************************************************)
C9_HandlerCalledNotAwaited ==
    /\ (~responder.handler_is_async /\ pc = "awaiting")
          => handler_state \in {"none", "completed"}
    /\ responder.handler_is_async
          => handler_state \in {"none", "running", "coroutine"}
    /\ (responder.handler_is_async /\ pc = "awaiting" /\ changes_to_process # {})
          => handler_state = "coroutine"

C9_Witness ==
    /\ responder.handler_is_async
    /\ pc = "awaiting"
    /\ handler_state = "coroutine"

(***************************************************************************)
(* C10: every yielded batch is consumed exactly once: it causes at most    *)
(* one call of _handle_directory_change, whose argument is a non-empty     *)
(* subset of that batch only, and a batch is yielded only after the        *)
(* handling of the batch before it is over.                                *)
(***************************************************************************)
C10_BatchConsumedOnceInOrder ==
    /\ [](pc = "handling" => (handler_args # {} /\ handler_args \subseteq changes))
    /\ [][(handler_state' = "running" /\ handler_state # "running") =>
             /\ pc = "dispatch"
             /\ handler_state = "none"
             /\ changes' = changes
             /\ handler_args' \subseteq changes]_vars
    /\ [][batch_no' # batch_no =>
             /\ batch_no' = batch_no + 1
             /\ pc = "awaiting"
             /\ handler_state # "running"
             /\ remaining' = changes']_vars

C10_Witness ==
    /\ pc = "handling"
    /\ batch_no = MaxBatches
    /\ Cardinality(handler_args) = 1
    /\ Cardinality(changes) = MaxBatchSize

\* the path a str or a Path given to the constructor denotes
AsPath(object) == IF object.type = "Path" THEN object.value ELSE Path(object.value)

(***************************************************************************)
(* C11: observe() is restartable per call and infinite.  Whatever ended    *)
(* the sequence before, a new observe() call starts with the flag set, so  *)
(* that it yields the batches delivered to it; and a sequence ends without *)
(* an error only when stop() was invoked during it.                        *)
(***************************************************************************)
C11_RestartableAndInfinite ==
    /\ [][(pc = "scheduled" /\ pc' = "awaiting") => _observing']_vars
    /\ [][(pc = "awaiting" /\ pc' = "returned") => stop_requested]_vars

(***************************************************************************)
(* C12: a configuration constructed with a single path, a str or a Path,   *)
(* has a directory list of exactly one element equal to that path; one     *)
(* constructed with a sequence of n paths has the same n paths in the same *)
(* order.                                                                  *)
(***************************************************************************)
C12_DirectoryListAsGiven ==
    /\ directories_to_observe.type \in {"str", "Path"} =>
          config.directories_to_observe = <<AsPath(directories_to_observe)>>
    /\ directories_to_observe.type = "list" =>
          /\ Len(config.directories_to_observe) = Len(directories_to_observe.value)
          /\ \A i \in DOMAIN directories_to_observe.value :
                config.directories_to_observe[i] = AsPath(directories_to_observe.value[i])

C12_Witness ==
    /\ directories_to_observe =
          ListObject(<<StrObject(<<".", Sep, "rel">>), PathObject(Path(OtherDir))>>)
    /\ config.directories_to_observe[1].parts = <<"rel">>
    /\ config.directories_to_observe[2].parts = <<"tmp", "other">>

(***************************************************************************)
(* C13: the configuration is read-only after construction.  No operation   *)
(* of the observer or of the processor changes the watched directories,    *)
(* the patterns or the lock-file name, and the directory list the observer *)
(* uses is always that of its configuration.                               *)
(***************************************************************************)
C13_ConfigurationReadOnly ==
    /\ [](_directories = config.directories_to_observe)
    /\ [][config' = config /\ _directories' = _directories]_vars

C13_Witness ==
    /\ pc = "returned"
    /\ batch_no = MaxBatches
    /\ Len(_directories) = 2
    /\ fs # {}
    /\ log # <<>>

\* the returned identifier, passed to get_data as the str it is
AsStr(data_id) == StrObject(data_id)

(***************************************************************************)
(* C14: immediately after id = register_data(data, alias), get_data(id)    *)
(* returns data; when an alias was given get_data(alias) returns the same  *)
(* object; when none was given (None or the empty string) the alias map is *)
(* unchanged and every other identifier resolves as it did before.         *)
(***************************************************************************)
C14_RetrievableAfterRegistration ==
    [][\A task \in Tasks, data \in Objects, alias \in AliasArguments :
          (issued' # issued /\ register_data(task, data, alias)) =>
              \E uuid \in Uuids :
                  /\ outcome' = Returns(UuidString(uuid))
                  /\ get_data(AsStr(UuidString(uuid)))' = Returns(data)
                  /\ get_data(UUIDObject(uuid))' = Returns(data)
                  /\ Truthy(alias) => get_data(StrObject(alias[1]))' = Returns(data)
                  /\ ~Truthy(alias) =>
                        /\ _aliases' = _aliases
                        /\ \A identifier \in Identifiers :
                              IdentifierString(identifier) # UuidString(uuid)
                                  => get_data(identifier)' = get_data(identifier)]_vars

C14_Witness ==
    /\ Cardinality(calls) = 2
    /\ DOMAIN _aliases = AliasNames
    /\ \E call \in calls : _aliases[<<"Alpha">>] = call.data_id /\ call.data = "b"
    /\ \E call \in calls : _aliases[<<"Alpha">>] # call.data_id /\ call.data = "a"

(***************************************************************************)
(* C15: get_data(x) raises KeyError and leaves the registry unchanged      *)
(* whenever x is neither a stored identifier nor a recorded alias; after   *)
(* clear() every identifier and alias that was valid before raises it.     *)
(***************************************************************************)
C15_UnknownIdentifierRaises ==
    /\ [][\A identifier \in Identifiers :
             (/\ IdentifierString(identifier) \notin DOMAIN _data \cup DOMAIN _aliases
              /\ GetData(identifier))
                 => /\ outcome' = Raises("KeyError")
                    /\ _data' = _data
                    /\ _aliases' = _aliases]_vars
    /\ [][clear =>
             \A identifier \in Identifiers :
                 IdentifierString(identifier) \in DOMAIN _data \cup DOMAIN _aliases
                     => get_data(identifier)' = Raises("KeyError")]_vars

C15_Witness ==
    /\ outcome = Raises("KeyError")
    /\ _data = EmptyDict
    /\ Cardinality(issued) = 2

C17_IdentifierResolvesToItsData ==
    \A call \in calls :
        /\ call.data_id \in DOMAIN _data
        /\ _data[call.data_id] = call.data
        /\ get_data(AsStr(call.data_id)) = Returns(call.data)

(***************************************************************************)
(* C18: for any interleaving of register_data calls of several cooperative *)
(* tasks, the returned identifiers are pairwise distinct, every identifier *)
(* resolves through get_data to the object of the call that returned it,   *)
(* and no registration is lost.                                            *)
(***************************************************************************)
C18_ConcurrentRegistrationsKept ==
    /\ \A one, other \in calls : one.data_id = other.data_id => one = other
    /\ Cardinality(DOMAIN _data) = Cardinality(calls)
    /\ \A call \in calls :
          \A identifier \in Identifiers :
              IdentifierString(identifier) = call.data_id
                  => get_data(identifier) = Returns(call.data)

\* what the tree has at a place and below it
Subtree(files, place) ==
    [path \in {p \in DOMAIN files :
                  /\ Len(p.parts) >= Len(place.parts)
                  /\ SubSeq(p.parts, 1, Len(place.parts)) = place.parts} |-> files[path]]

(***************************************************************************)
(* C19: copy_file_or_directory raises FileNotFoundError when the source    *)
(* does not exist and FileExistsError when the destination exists and      *)
(* overwrite is false, for a file source and for a directory source alike, *)
(* and in both error cases the destination is left unchanged.              *)
(***************************************************************************)
C19_CopyErrors ==
    [][\A source_path \in SourceArguments, destination_path \in DestinationArguments,
          overwrite \in BOOLEAN, ignore_patterns \in IgnoreArguments :
          copy_file_or_directory(source_path, destination_path, overwrite, ignore_patterns) =>
              /\ ~exists(Path(source_path)) =>
                    /\ outcome' = Raises("FileNotFoundError")
                    /\ Subtree(tree', Path(destination_path))
                          = Subtree(tree, Path(destination_path))
              /\ (exists(Path(source_path)) /\ exists(Path(destination_path)) /\ ~overwrite) =>
                    /\ outcome' = Raises("FileExistsError")
                    /\ Subtree(tree', Path(destination_path))
                          = Subtree(tree, Path(destination_path))]_vars

\* the list has one entry, with the id and the data, for each of the items, in their order
ListsItems(list, pairs) ==
    /\ Len(list) = Len(pairs)
    /\ \A i \in DOMAIN pairs :
          /\ list[i]["id"] = pairs[i][1]
          /\ list[i]["data"] = pairs[i][2]["data"]

(***************************************************************************)
(* C20: for every registry content reachable through register_data,        *)
(* get_all_data returns one entry (id and data) per stored item, and       *)
(* get_data_by_type(t) returns exactly the entries whose type is t, an     *)
(* item registered without a type counting as the default type.            *)
(***************************************************************************)
C20_ListsByTypeAndAll ==
    /\ get_all_data.raises = NoError
    /\ ListsItems(get_all_data.returns[1], _stored_data)
    /\ \A data_type \in DataTypes :
          /\ get_data_by_type(data_type).raises = NoError
          /\ ListsItems(get_data_by_type(data_type).returns[1],
                        SelectSeq(_stored_data, LAMBDA pair : TypeOf(pair[2]) = data_type))
\* the pattern occurs in the sequence in order, gaps allowed, no position used twice
IsSubsequence(pattern_parts, sequence_parts) ==
    \E position \in [DOMAIN pattern_parts -> DOMAIN sequence_parts] :
        /\ \A i \in DOMAIN pattern_parts : sequence_parts[position[i]] = pattern_parts[i]
        /\ \A i, j \in DOMAIN pattern_parts : i < j => position[i] < position[j]

\* C21: parts_match_in_order returns True exactly when the pattern is not empty
\* and is a subsequence of the sequence; an empty pattern gives False
C21_TrueExactlyForSubsequences ==
    outcome # NoOutcome =>
        outcome = Returns(/\ matched.pattern_parts # <<>>
                          /\ IsSubsequence(matched.pattern_parts, matched.sequence_parts))

\* a pattern found with a gap, a repeated part not found twice, and an empty pattern
C21_Witness ==
    /\ outcome # NoOutcome
    /\ \/ /\ matched.sequence_parts = <<"a", "b", "a">>
          /\ matched.pattern_parts = <<"a", "a">>
          /\ outcome = Returns(TRUE)
       \/ /\ matched.sequence_parts = <<"a", "b">>
          /\ matched.pattern_parts = <<"a", "a">>
          /\ outcome = Returns(FALSE)

\* C22: a stop() issued after process_changes() was scheduled and before observe()
\* took its first step is not lost: the sequence that starts yields no batch, so
\* that _handle_directory_change is not invoked
C22_EarlyStopNotLost ==
    [][early_stop => batch_no' = batch_no]_vars

\* the events of the batch that passed the predicate and are not the lock-file path
Candidates == {event \in changes : event \in pred_true /\ ~IsLockFilePath(event[2])}

\* C23: lock-file suppression is decided once for a whole batch: of the events that
\* passed the predicate and are not the lock-file path, either all are retained or
\* none is, also when the lock file is created or removed during the filtering
C23_SuppressionUniformPerBatch ==
    Filtered =>
        \/ Candidates \subseteq changes_to_process
        \/ Candidates \cap changes_to_process = {}

\* the event's path matches an exclude pattern or matches no include pattern
PatternsReject(event) ==
    \/ MatchesAny(event[2], config.exclude_patterns)
    \/ ~MatchesAny(event[2], config.include_patterns)

(***************************************************************************)
(* C24: while the observer is observing, observe() yields every batch the  *)
(* watch primitive delivers as it is, and process_changes() retains every  *)
(* event that passed the predicate, is not the lock-file path and was      *)
(* evaluated without a lock file: include_patterns and exclude_patterns    *)
(* remove no event.                                                        *)
(***************************************************************************)
C24_PatternsRemoveNothing ==
    /\ [][\A batch \in Batches : ObserveYields(batch) => changes' = batch]_vars
    /\ [](Filtered => ClaimedSet \subseteq changes_to_process)

\* the handler is given a whole batch, none of whose events the patterns accept
C24_Witness ==
    /\ pc = "handling"
    /\ Cardinality(changes) = MaxBatchSize
    /\ handler_args = changes
    /\ \A event \in changes : PatternsReject(event)

\* the identifiers under which the data map holds the instance
EntriesOf(instance) == {data_id \in DOMAIN _data : _data[data_id] = instance}

\* the registration the constructor was asked for, or the default of the class
RegistrationWanted(instance, should_register) ==
    \/ should_register = Some(TRUE)
    \/ should_register = None /\ should_register_by_default[instance]

(***************************************************************************)
(* C25: an instance is registered at most once.  register() on an instance *)
(* whose is_registered is true raises RuntimeError and leaves the data map *)
(* and the alias map as they were; the constructor registers the instance  *)
(* exactly once when should_register is True, or is None and the default   *)
(* of the class is True, and not at all otherwise.                         *)
(***************************************************************************)
C25_RegisteredAtMostOnce ==
    /\ [](\A instance \in Registerables : Cardinality(EntriesOf(instance)) <= 1)
    /\ [][\A instance \in Registerables :
            /\ (/\ instance \in DOMAIN instances
                /\ id(instance) # None
                /\ register(instance))
                    => /\ outcome' = Raises("RuntimeError")
                       /\ _data' = _data
                       /\ _aliases' = _aliases
            /\ \A should_register \in ShouldRegisterArguments :
                  (instance \notin DOMAIN instances /\ Registerable(instance, should_register))
                      => IF RegistrationWanted(instance, should_register)
                         THEN /\ Cardinality(EntriesOf(instance)') = 1
                              /\ Cardinality(calls' \ calls) = 1
                              /\ id(instance)' # None
                              /\ EntriesOf(instance)' = {id(instance)'[1]}
                         ELSE /\ EntriesOf(instance)' = {}
                              /\ calls' = calls
                              /\ _data' = _data
                              /\ _aliases' = _aliases
                              /\ id(instance)' = None]_vars

\* register() has raised for an instance the constructor registered by default
C25_Witness ==
    /\ outcome = Raises("RuntimeError")
    /\ "w1" \in DOMAIN instances
    /\ id("w1") # None
    /\ EntriesOf("w1") = {id("w1")[1]}
    /\ "g1" \in DOMAIN instances
    /\ id("g1") = None

\* C26: every constructed instance whose is_registered is true is stored in its
\* registry under its id: get_data(instance.id) returns that instance
C26_RegisteredInstanceIsStored ==
    \A instance \in DOMAIN instances :
        id(instance) # None => get_data(StrObject(id(instance)[1])) = Returns(instance)

(***************************************************************************)
(* C27: every alias recorded in the alias map points to a key of the data  *)
(* map, so that get_data of a recorded alias raises no lookup error.       *)
(***************************************************************************)
C27_AliasesPointToData ==
    \A alias \in DOMAIN _aliases :
        /\ _aliases[alias] \in DOMAIN _data
        /\ get_data(StrObject(alias)).raises = NoError

\* an alias recorded after the registry was cleared, while an older identifier is gone
C27_Witness ==
    /\ DOMAIN _aliases # {}
    /\ \E uuid \in issued : UuidString(uuid) \notin DOMAIN _data
    /\ \E alias \in DOMAIN _aliases : get_data(StrObject(alias)) = Returns(_data[_aliases[alias]])

\* the calls that have returned
Returned == {thread \in DOMAIN threads : threads[thread].returned # None}

(***************************************************************************)
(* C28: under any interleaving of calls from several threads, the class    *)
(* initializer runs to completion at most once and every call returns the  *)
(* same instance; once the instance exists it is never replaced, and a     *)
(* later call returns it whatever its arguments.                           *)
(***************************************************************************)
C28_OneInstanceForAllThreads ==
    /\ [](initialized <= 1)
    /\ [](\A thread \in Returned : threads[thread].returned = _instance)
    /\ [](\A first, second \in Returned : threads[first].returned = threads[second].returned)
    /\ [][_instance # None => _instance' = _instance]_vars
    /\ [][\A thread \in Threads :
            (ThreadAt(thread, "first_check") /\ _instance # None /\ threads'[thread].pc = "done")
                => threads'[thread].returned = _instance]_vars

\* one thread built the instance, and another thread's first call returned it
\* although it was made with other arguments
C28_Witness ==
    \E first, second \in Returned :
        /\ first # second
        /\ threads[first].built # None
        /\ ThreadAt(second, "done")
        /\ threads[second].built = None
        /\ threads[second].calls = 1
        /\ threads[second].returned = _instance
        /\ threads[second].args # _instance[1].args

====
